---------------------------- MODULE Spec2Model ----------------------------
(***************************************************************************)
(* A model of squad/core/models.py: the project-status checkpoint chain    *)
(* (ProjectStatus.create, ProjectStatus.builds), the build aggregations    *)
(* (Build.metadata, Build.test_summary) and the per-test history           *)
(* (Test.history).  One project is modelled; primary keys are positions in *)
(* the table sequences (builds, statuses, testRuns, tests).                *)
(***************************************************************************)
EXTENDS Integers, Sequences, FiniteSets

(* ------------------------------ bounds --------------------------------- *)
MaxTime == 3
MaxBuilds == 3
MaxStatuses == 2
MaxRuns == 2
MaxSummaryTests == 2
MaxTests == 3
MaxLen == 6
MaxBothLen == 3
MaxCount == 7

(* ------------------------- values of the program ----------------------- *)
\* Python's None, for a missing row, a null foreign key or a null datetime.
None == -1
\* ret when the operation just performed was not a return of
\* ProjectStatus.create.
NotCalled == None - 1

Procs == {1, 2}
Times == 0 .. MaxTime
Thresholds == {0, 1}
Envs == {"env1", "env2"}
\* the suite, name and environment of the tests that are stored
Origins == { <<"suite1", "name1", "env1">>, <<"suite2", "name1", "env1">>,
             <<"suite1", "name1", "env2">> }
Keys == {"foo", "baz"}
Values == {"bar", "qux"}
\* Test.result, a NullBooleanField
Results == {"True", "False", "None"}
TestTimes == {0, 1, 2}
\* the results of the tests whose history is read
HistoryResults == {"True", "False"}
\* the characters of the names and versions of builds
Chars == {"1", "-", "r", "c"}

VARIABLES
    now,            \* timezone.now()
    threshold,      \* Project.build_completion_threshold
    builds,         \* table Build of the project: builds[id] = [datetime]
    statuses,       \* table ProjectStatus: statuses[id] = [build, previous]
    pc,             \* pc[p]: where caller p is inside ProjectStatus.create
    local,          \* local[p]: create's local variables build, previous
    ret,            \* what the call of create that has just returned, returned
    feed            \* what the read of ProjectStatus.builds that has just been
                    \* made returned: [status, builds]

VARIABLES
    testRuns,       \* table TestRun of one build, with the tests of each run:
                    \* testRuns[id] = [environment, metadata_file, tests]
    metadata,       \* what the read of Build.metadata just made returned
    summary,        \* what the read of Build.test_summary just made returned
    tests,          \* table Test joined with its test run and build:
                    \* tests[id] = [suite, name, environment, datetime, result]
    hist            \* what the read of Test.history just made returned

VARIABLES
    newBuild        \* a Build instance: [given, name, version, state], given
                    \* the name and version its constructor was called with

VARIABLES
    evaluated       \* evaluated[s]: the list that the builds property of the
                    \* status s returned when create returned s to a caller
                    \* that reads it at once

VARIABLES
    instance,       \* a Test instance a caller holds: [test, __history__]
    accesses        \* what the reads of instance.history returned: the first,
                    \* the last, and the number of tests stored at the last

VARIABLES
    statusRow,      \* a row of Status: [tests_pass, tests_fail]
    percentages     \* what the read of pass_percentage, fail_percentage and
                    \* has_tests of the row that has just been made returned

ckVars == <<now, threshold, builds, statuses, pc, local, ret, feed>>
aggVars == <<testRuns, metadata, summary>>
histVars == <<tests, hist>>
restVars == <<newBuild, statusRow, percentages, evaluated, instance, accesses>>
vars == <<ckVars, aggVars, histVars, restVars>>

(* ------------------------------ querysets ------------------------------ *)
BuildIds == 1 .. Len(builds)
StatusIds == 1 .. Len(statuses)

\* The orders in which the database may return the rows S of Build ordered by
\* datetime (ascending when desc is FALSE): rows with equal datetime come in
\* an order the database chooses.
RECURSIVE OrderByDatetime(_, _)
OrderByDatetime(S, desc) ==
    IF S = {} THEN {<<>>}
    ELSE LET first == { b \in S : \A c \in S :
                          IF desc THEN builds[b].datetime >= builds[c].datetime
                                  ELSE builds[b].datetime <= builds[c].datetime }
         IN  UNION { { <<b>> \o q : q \in OrderByDatetime(S \ {b}, desc) } : b \in first }

\* the filter of line 417 with datetime__lte for datetime__lt
CompletedBuildsLte(completed_by) ==
    { b \in BuildIds : builds[b].datetime <= completed_by }

\* project.builds.filter(datetime__lt=completed_by)
CompletedBuilds(completed_by) ==
    { b \in BuildIds : builds[b].datetime < completed_by }

\* last() of the builds had Build no Meta.ordering: the row of greatest pk
LastBuildByPk(S) ==
    IF S = {} THEN {None} ELSE { CHOOSE b \in S : \A c \in S : c <= b }

\* QuerySet.last() of a queryset ordered by Build.Meta.ordering = ['datetime']:
\* the ordering is reversed and the first row taken; None for no row.
LastBuild(S) ==
    IF S = {} THEN {None} ELSE { q[1] : q \in OrderByDatetime(S, TRUE) }

\* cls.objects.filter(build__project=project).last(): ProjectStatus has no
\* ordering, so last() orders by -pk and takes the first row.
LastStatus ==
    IF StatusIds = {} THEN None
    ELSE CHOOSE s \in StatusIds : \A t \in StatusIds : t <= s

\* the test of line 421
ShouldCreate(build, previous) ==
    build # None /\ (previous = None \/ statuses[previous].build # build)

\* cls.objects.create(build=build, previous=previous)
NewStatus(build, previous) ==
    [build |-> build, previous |-> previous]

\* ProjectStatus.builds with datetime__lte=self.build.datetime in line 433 too
StatusBuildsUpToOwn(s) ==
    IF statuses[s].previous = None
    THEN OrderByDatetime(
             { b \in BuildIds :
                 builds[b].datetime <= builds[statuses[s].build].datetime },
             FALSE)
    ELSE LET previous == statuses[statuses[s].previous].build
         IN  OrderByDatetime(
                 { b \in BuildIds :
                     /\ builds[b].datetime > builds[previous].datetime
                     /\ builds[b].datetime <= builds[statuses[s].build].datetime },
                 FALSE)

\* ProjectStatus.builds with datetime__gte for datetime__gt in line 436
StatusBuildsGte(s) ==
    IF statuses[s].previous = None
    THEN OrderByDatetime(BuildIds, FALSE)
    ELSE LET previous == statuses[statuses[s].previous].build
         IN  OrderByDatetime(
                 { b \in BuildIds :
                     /\ builds[b].datetime >= builds[previous].datetime
                     /\ builds[b].datetime <= builds[statuses[s].build].datetime },
                 FALSE)

\* ProjectStatus.builds of the status s: the lists the property may return
StatusBuilds(s) ==
    IF statuses[s].previous = None
    THEN OrderByDatetime(BuildIds, FALSE)
    ELSE LET previous == statuses[statuses[s].previous].build
         IN  OrderByDatetime(
                 { b \in BuildIds :
                     /\ builds[b].datetime > builds[previous].datetime
                     /\ builds[b].datetime <= builds[statuses[s].build].datetime },
                 FALSE)

NoLocal == [build |-> None, previous |-> None]
NoFeed == [status |-> None, builds |-> <<>>]

(* ------------------- Build.metadata and Build.test_summary ------------- *)
\* The orders in which the database may return the rows S of a queryset that
\* has no ordering (TestRun and Test have no Meta.ordering).
RECURSIVE AllOrders(_)
AllOrders(S) ==
    IF S = {} THEN {<<>>}
    ELSE UNION { { <<x>> \o q : q \in AllOrders(S \ {x}) } : x \in S }

RunIds == 1 .. Len(testRuns)

\* A metadata_file is null or a text; the text of a JSON object is the
\* sequence of its members <<key, value>>.
Members == Keys \X Values
JsonTexts ==
    {<<>>} \cup { <<m>> : m \in Members }
           \cup { p \in Members \X Members : p[1][1] # p[2][1] }
\* a text that is not JSON: {"foo"}, a member that has no value
NotJson == << <<"foo">> >>
NullFile == [null |-> TRUE, text |-> <<>>]
MetadataFiles ==
    {NullFile} \cup { [null |-> FALSE, text |-> t] : t \in JsonTexts \cup {NotJson} }

EmptyDict == [k \in {} |-> ""]

\* what an evaluation that raised ValueError has in the place of a value
ValueError == [k \in {"ValueError"} |-> "raised"]

\* json.loads of a text: for a key of a JSON object, its last member; a text
\* that is not JSON raises
json_loads(text) ==
    IF \E i \in DOMAIN text : Len(text[i]) # 2 THEN ValueError
    ELSE [k \in { text[i][1] : i \in DOMAIN text } |->
            text[CHOOSE i \in DOMAIN text :
                    /\ text[i][1] = k
                    /\ \A j \in DOMAIN text : text[j][1] = k => j <= i][2]]

\* TestRun.metadata
TestRunMetadata(run) ==
    IF ~run.metadata_file.null
    THEN json_loads(run.metadata_file.text)
    ELSE EmptyDict

dict_intersection(d1, d2) ==
    [k \in { k \in DOMAIN d1 : k \in DOMAIN d2 /\ d2[k] = d1[k] } |-> d1[k]]

\* the loop of Build.metadata over the test runs in the order given, from the
\* accumulator metadata: an empty accumulator is falsy, and what
\* test_run.metadata raises leaves the loop and the property
RECURSIVE MetadataLoop(_, _)
MetadataLoop(order, acc) ==
    IF order = <<>> THEN acc
    ELSE IF TestRunMetadata(testRuns[Head(order)]) = ValueError THEN ValueError
    ELSE MetadataLoop(Tail(order),
            IF DOMAIN acc # {}
            THEN dict_intersection(acc, TestRunMetadata(testRuns[Head(order)]))
            ELSE TestRunMetadata(testRuns[Head(order)]))

\* Build.metadata returning None for a metadata that is empty
BuildMetadataOrNone(order) ==
    IF DOMAIN MetadataLoop(order, EmptyDict) = {}
    THEN [k \in {"None"} |-> "None"]
    ELSE MetadataLoop(order, EmptyDict)

\* Build.metadata, self.test_runs.all() returning the runs in this order
BuildMetadata(order) == MetadataLoop(order, EmptyDict)

\* The tests of run r; a test is <<run, position in run.tests>>.
TestsOf(r) == { <<r, i>> : i \in 1 .. Len(testRuns[r].tests) }
AllTests == UNION { TestsOf(r) : r \in RunIds }
TestResult(t) == testRuns[t[1]].tests[t[2]]

\* The orders in which the two loops of Build.test_summary may visit the
\* tests: runs in an order of self.test_runs.all(), the tests of each run in
\* an order of run.tests.all().
RECURSIVE RunsThenTests(_)
RunsThenTests(runs) ==
    IF runs = <<>> THEN {<<>>}
    ELSE { a \o b : a \in AllOrders(TestsOf(Head(runs))),
                    b \in RunsThenTests(Tail(runs)) }
Iterations == UNION { RunsThenTests(q) : q \in AllOrders(RunIds) }

\* mapping = {True: 'pass', False: 'fail', None: 'missing'}
mapping(result) ==
    CASE result = "True" -> "pass"
      [] result = "False" -> "fail"
      [] result = "None" -> "missing"

\* line 147 without its second test: not test.result
IsFailureFalsy(result) == result # "True"

\* line 147: not test.result and test.result is not None
IsFailure(result) == result # "True" /\ result # "None"

InitialSummary ==
    [total |-> 0, pass |-> 0, fail |-> 0, missing |-> 0,
     failures |-> [e \in {} |-> <<>>]]

\* the loop body counting under total the tests that have a result only
CountTestWithResult(sum, test) ==
    LET counted == [sum EXCEPT ![mapping(TestResult(test))] = @ + 1,
                               !.total = IF TestResult(test) = "None" THEN @ ELSE @ + 1]
        env == testRuns[test[1]].environment
        failures ==
            IF env \in DOMAIN counted.failures THEN counted.failures
            ELSE [e \in DOMAIN counted.failures \cup {env} |->
                    IF e = env THEN <<>> ELSE counted.failures[e]]
    IN  IF IsFailure(TestResult(test))
        THEN [counted EXCEPT !.failures = [failures EXCEPT ![env] = Append(@, test)]]
        ELSE counted

\* the body of the inner loop of Build.test_summary, lines 145-151
CountTest(sum, test) ==
    LET counted == [sum EXCEPT ![mapping(TestResult(test))] = @ + 1,
                               !.total = @ + 1]
        env == testRuns[test[1]].environment
        failures ==
            IF env \in DOMAIN counted.failures THEN counted.failures
            ELSE [e \in DOMAIN counted.failures \cup {env} |->
                    IF e = env THEN <<>> ELSE counted.failures[e]]
    IN  IF IsFailure(TestResult(test))
        THEN [counted EXCEPT !.failures = [failures EXCEPT ![env] = Append(@, test)]]
        ELSE counted

RECURSIVE SummaryLoop(_, _)
SummaryLoop(iteration, sum) ==
    IF iteration = <<>> THEN sum
    ELSE SummaryLoop(Tail(iteration), CountTest(sum, Head(iteration)))

\* Build.test_summary, the loops visiting the tests in this order
TestSummary(iteration) == SummaryLoop(iteration, InitialSummary)

NoMetadata == [read |-> FALSE, value |-> EmptyDict]
NoSummary == [read |-> FALSE, iterated |-> <<>>, value |-> InitialSummary]

(* ----------------------------- Test.history ---------------------------- *)
TestIds == 1 .. Len(tests)

\* the rows of previous_tests, lines 287-292, before they are ordered
PreviousTests(self) ==
    { t \in TestIds \ {self} :
        /\ tests[t].suite = tests[self].suite
        /\ tests[t].name = tests[self].name
        /\ tests[t].datetime < tests[self].datetime
        /\ tests[t].environment = tests[self].environment }

\* order_by("-test_run__build__datetime"): tests of equal build datetime come
\* in an order the database chooses
RECURSIVE OrderByBuildDatetimeDesc(_)
OrderByBuildDatetimeDesc(S) ==
    IF S = {} THEN {<<>>}
    ELSE UNION { { <<t>> \o q : q \in OrderByBuildDatetimeDesc(S \ {t}) } :
                 t \in { t \in S : \A u \in S : tests[t].datetime >= tests[u].datetime } }

\* the loop of lines 293-302 without the break of line 302
RECURSIVE HistoryLoopNoBreak(_, _, _, _)
HistoryLoopNoBreak(self, previous_tests, since, count) ==
    IF previous_tests = <<>>
    THEN [since |-> since, count |-> count, last_different |-> None]
    ELSE IF tests[Head(previous_tests)].result = tests[self].result
         THEN HistoryLoopNoBreak(self, Tail(previous_tests), Head(previous_tests), count + 1)
         ELSE [HistoryLoopNoBreak(self, Tail(previous_tests), since, count)
                 EXCEPT !.last_different = Head(previous_tests)]

\* the loop of lines 293-302 over the tests that are left
RECURSIVE HistoryLoop(_, _, _, _)
HistoryLoop(self, previous_tests, since, count) ==
    IF previous_tests = <<>>
    THEN [since |-> since, count |-> count, last_different |-> None]
    ELSE IF tests[Head(previous_tests)].result = tests[self].result
         THEN HistoryLoop(self, Tail(previous_tests), Head(previous_tests), count + 1)
         ELSE [since |-> since, count |-> count, last_different |-> Head(previous_tests)]

\* Test.History of the test self, the query returning previous_tests
History(self, previous_tests) == HistoryLoop(self, previous_tests, None, 0)

NoHistory ==
    [test |-> None, previous_tests |-> <<>>,
     history |-> [since |-> None, count |-> 0, last_different |-> None]]

\* __history__ = None, and no instance held
NoInstance == [test |-> None, __history__ |-> NoHistory]
NoAccesses == [first |-> NoHistory, last |-> NoHistory, stored |-> 0]

\* the suite, name and environment of the tests stored while an instance is
\* held
HeldOrigin == <<"suite1", "name1", "env1">>

(* ------------------------------ Build.save ---------------------------- *)
\* The strings of at most n characters, a string a sequence of characters.
Strings(n) == UNION { [1 .. k -> Chars] : k \in 0 .. n }

\* Build(name=..., version=...): an argument that is not given leaves the
\* empty string, which save tests as it tests None.
Constructed(name, version) ==
    [given |-> [name |-> name, version |-> version],
     name |-> name, version |-> version, state |-> "new"]
NoBuild == [Constructed(<<>>, <<>>) EXCEPT !.state = "none"]

\* the name and version a build is constructed with
BuildArguments ==
    ({<<>>} \X Strings(MaxLen)) \cup (Strings(MaxLen) \X {<<>>})
        \cup (Strings(MaxBothLen) \X Strings(MaxBothLen))

\* re.sub('-rc', '~rc', string, count=1)
re_sub_first(string) ==
    LET starts == { i \in 1 .. Len(string) - 2 :
                      SubSeq(string, i, i + 2) = <<"-", "r", "c">> }
    IN  IF starts = {} THEN string
        ELSE LET i == CHOOSE i \in starts : \A j \in starts : i <= j
             IN  [string EXCEPT ![i] = "~"]

\* re.sub('-rc', '~rc', string): the string is scanned from the left and
\* each match found is replaced, the scan going on after the match
RECURSIVE re_sub(_)
re_sub(string) ==
    IF Len(string) < 3 THEN string
    ELSE IF SubSeq(string, 1, 3) = <<"-", "r", "c">>
         THEN <<"~", "r", "c">> \o re_sub(SubSeq(string, 4, Len(string)))
         ELSE <<Head(string)>> \o re_sub(Tail(string))

\* lines 110-116 of Build.save; None is written as the empty string, the
\* two being tested alike by line 113
BuildSaveNames(build) ==
    LET named ==
            IF build.version # <<>> /\ build.name = <<>>
            THEN [build EXCEPT !.name = build.version, !.version = <<>>]
            ELSE build
    IN  IF named.name # <<>> /\ named.version = <<>>
        THEN [named EXCEPT !.version = re_sub(named.name)]
        ELSE named

(* -------------------------------- Status ------------------------------- *)
\* tests_pass and tests_fail are counts of tests
Counts == 0 .. MaxCount
\* tests_pass = models.IntegerField(default=0), tests_fail likewise
DefaultStatus == [tests_pass |-> 0, tests_fail |-> 0]

\* A number that is not an integer is the fraction num / den in lowest
\* terms, den positive; the rounding of floats is left out.
RECURSIVE gcd(_, _)
gcd(a, b) == IF b = 0 THEN a ELSE gcd(b, a % b)
Fraction(num, den) ==
    LET g == gcd(IF num < 0 THEN -num ELSE num, den)
    IN  [num |-> num \div g, den |-> den \div g]
\* what an evaluation that raised ZeroDivisionError has in the place of a
\* number
ZeroDivisionError == [num |-> 0, den |-> 0]

\* float(a) / float(b)
FloatDivide(a, b) == IF b = 0 THEN ZeroDivisionError ELSE Fraction(a, b)
\* k * x and k - x for an integer k
Multiply(k, x) ==
    IF x = ZeroDivisionError THEN x ELSE Fraction(k * x.num, x.den)
Subtract(k, x) ==
    IF x = ZeroDivisionError THEN x ELSE Fraction(k * x.den - x.num, x.den)

total_tests(self) == self.tests_pass + self.tests_fail

\* pass_percentage without the test of line 366
pass_percentage_unguarded(self) ==
    Multiply(100, FloatDivide(self.tests_pass, total_tests(self)))

pass_percentage(self) ==
    IF self.tests_pass > 0
    THEN Multiply(100, FloatDivide(self.tests_pass, total_tests(self)))
    ELSE Fraction(0, 1)

fail_percentage(self) == Subtract(100, pass_percentage(self))

has_tests(self) == (self.tests_pass + self.tests_fail) > 0

NoPercentages ==
    [read |-> FALSE, pass_percentage |-> Fraction(0, 1),
     fail_percentage |-> Fraction(0, 1), has_tests |-> FALSE]

(* ------------------------------- actions ------------------------------- *)
Init ==
    /\ now = 0
    /\ threshold \in Thresholds
    /\ builds = <<>>
    /\ statuses = <<>>
    /\ pc = [p \in Procs |-> "idle"]
    /\ local = [p \in Procs |-> NoLocal]
    /\ ret = NotCalled
    /\ feed = NoFeed
    /\ testRuns = <<>>
    /\ metadata = NoMetadata
    /\ summary = NoSummary
    /\ tests = <<>>
    /\ hist = NoHistory
    /\ newBuild = NoBuild
    /\ statusRow = DefaultStatus
    /\ percentages = NoPercentages
    /\ evaluated = <<>>
    /\ instance = NoInstance
    /\ accesses = NoAccesses

\* the clock advances
Tick ==
    /\ now < MaxTime
    /\ now' = now + 1
    /\ ret' = NotCalled
    /\ feed' = NoFeed
    /\ UNCHANGED <<threshold, builds, statuses, pc, local, aggVars, histVars, restVars>>

\* Build.save of a new build: datetime is the one given, or now when none is
SubmitBuild(datetime) ==
    /\ Len(builds) < MaxBuilds
    /\ builds' = Append(builds,
                    [datetime |-> IF datetime = None THEN now ELSE datetime])
    /\ ret' = NotCalled
    /\ feed' = NoFeed
    /\ UNCHANGED <<now, threshold, statuses, pc, local, aggVars, histVars, restVars>>

\* create with the latest status moved to the build (an update of the row)
\* for the insert of line 422
CreateUpdatingLatest ==
    LET completed_by == now - threshold
    IN  /\ \E build \in LastBuild(CompletedBuilds(completed_by)) :
             LET previous == LastStatus
             IN  IF ShouldCreate(build, previous)
                 THEN IF previous = None
                      THEN /\ statuses' = Append(statuses, NewStatus(build, previous))
                           /\ ret' = Len(statuses) + 1
                      ELSE /\ statuses' = [statuses EXCEPT ![previous].build = build]
                           /\ ret' = previous
                 ELSE /\ statuses' = statuses
                      /\ ret' = None
        /\ feed' = NoFeed
        /\ UNCHANGED <<now, threshold, builds, pc, local, aggVars, histVars, restVars>>

\* ProjectStatus.create(project), a whole call
Create ==
    LET completed_by == now - threshold
    IN  /\ \E build \in LastBuild(CompletedBuilds(completed_by)) :
             LET previous == LastStatus
             IN  IF ShouldCreate(build, previous)
                 THEN /\ Len(statuses) < MaxStatuses
                      /\ statuses' = Append(statuses, NewStatus(build, previous))
                      /\ ret' = Len(statuses) + 1
                 ELSE /\ statuses' = statuses
                      /\ ret' = None
        /\ feed' = NoFeed
        /\ UNCHANGED <<now, threshold, builds, pc, local, aggVars, histVars, restVars>>

\* a read of the property ProjectStatus.builds of the status s
ReadBuilds(s) ==
    /\ \E q \in StatusBuilds(s) : feed' = [status |-> s, builds |-> q]
    /\ ret' = NotCalled
    /\ UNCHANGED <<now, threshold, builds, statuses, pc, local, aggVars, histVars, restVars>>

\* ProjectStatus.create(project) by a caller that reads the builds property
\* of the status returned, if one is, at once
CreateAndReadBuilds ==
    /\ UNCHANGED <<now, threshold, builds, pc, local, aggVars, histVars,
                   newBuild, statusRow, percentages, instance, accesses>>
    /\ \E build \in LastBuild(CompletedBuilds(now - threshold)) :
         LET previous == LastStatus
         IN  IF ShouldCreate(build, previous)
             THEN /\ Len(statuses) < MaxStatuses
                  /\ statuses' = Append(statuses, NewStatus(build, previous))
                  /\ ret' = Len(statuses) + 1
                  \* the builds of the new status, the last of statuses'
                  /\ \E q \in StatusBuilds(Len(statuses))' :
                       /\ feed' = [status |-> Len(statuses) + 1, builds |-> q]
                       /\ evaluated' = Append(evaluated, q)
             ELSE /\ statuses' = statuses
                  /\ ret' = None
                  /\ feed' = NoFeed
                  /\ evaluated' = evaluated

\* ProjectStatus.create(project) by one of several concurrent callers, a
\* step for each statement that reads or writes the database.
\* lines 415-419: completed_by and build = builds.last()
CreateQueryBuild(p) ==
    /\ pc[p] = "idle"
    /\ \E build \in LastBuild(CompletedBuilds(now - threshold)) :
         local' = [local EXCEPT ![p] = [build |-> build, previous |-> None]]
    /\ pc' = [pc EXCEPT ![p] = "previous"]
    /\ ret' = NotCalled
    /\ UNCHANGED <<now, threshold, builds, statuses, feed, aggVars, histVars, restVars>>

\* line 420: previous = cls.objects.filter(build__project=project).last()
CreateQueryPrevious(p) ==
    /\ pc[p] = "previous"
    /\ local' = [local EXCEPT ![p].previous = LastStatus]
    /\ pc' = [pc EXCEPT ![p] = "decide"]
    /\ ret' = NotCalled
    /\ UNCHANGED <<now, threshold, builds, statuses, feed, aggVars, histVars, restVars>>

\* lines 421-424: the test, the insert and the return
CreateFinish(p) ==
    /\ pc[p] = "decide"
    /\ IF ShouldCreate(local[p].build, local[p].previous)
       THEN /\ Len(statuses) < MaxStatuses
            /\ statuses' = Append(statuses, NewStatus(local[p].build, local[p].previous))
            /\ ret' = Len(statuses) + 1
       ELSE /\ statuses' = statuses
            /\ ret' = None
    /\ pc' = [pc EXCEPT ![p] = "idle"]
    /\ local' = [local EXCEPT ![p] = NoLocal]
    /\ UNCHANGED <<now, threshold, builds, feed, aggVars, histVars, restVars>>

\* build.test_runs.create(environment=..., metadata_file=...)
CreateTestRun(environment, metadata_file) ==
    /\ Len(testRuns) < MaxRuns
    /\ testRuns' = Append(testRuns,
                     [environment |-> environment, metadata_file |-> metadata_file,
                      tests |-> <<>>])
    /\ metadata' = NoMetadata
    /\ summary' = NoSummary
    /\ UNCHANGED <<ckVars, histVars, restVars>>

\* test_run.tests.create(result=...) for the run r
CreateTest(r, result) ==
    /\ Cardinality(AllTests) < MaxSummaryTests
    /\ testRuns' = [testRuns EXCEPT ![r].tests = Append(@, result)]
    /\ metadata' = NoMetadata
    /\ summary' = NoSummary
    /\ UNCHANGED <<ckVars, histVars, restVars>>

\* a read of the property Build.metadata
ReadMetadata ==
    /\ \E order \in AllOrders(RunIds) :
         metadata' = [read |-> TRUE, value |-> BuildMetadata(order)]
    /\ UNCHANGED <<testRuns, summary, ckVars, histVars, restVars>>

\* a read of the property Build.test_summary
ReadSummary ==
    /\ \E iteration \in Iterations :
         summary' = [read |-> TRUE, iterated |-> iteration,
                     value |-> TestSummary(iteration)]
    /\ UNCHANGED <<testRuns, metadata, ckVars, histVars, restVars>>

\* a test is stored, in a test run of the environment and of a build of the
\* datetime
IngestTest(suite, name, environment, datetime, result) ==
    /\ Len(tests) < MaxTests
    /\ tests' = Append(tests,
                  [suite |-> suite, name |-> name, environment |-> environment,
                   datetime |-> datetime, result |-> result])
    /\ hist' = NoHistory
    /\ UNCHANGED <<ckVars, aggVars, restVars>>

\* a first read of the property Test.history of the test self
ReadHistory(self) ==
    /\ \E previous_tests \in OrderByBuildDatetimeDesc(PreviousTests(self)) :
         hist' = [test |-> self, previous_tests |-> previous_tests,
                  history |-> History(self, previous_tests)]
    /\ UNCHANGED <<tests, ckVars, aggVars, restVars>>

\* Build(name=name, version=version), the one build instance followed
NewBuild ==
    /\ newBuild.state = "none"
    /\ \E arguments \in BuildArguments :
         newBuild' = Constructed(arguments[1], arguments[2])
    /\ UNCHANGED <<ckVars, aggVars, histVars, statusRow, percentages, evaluated, instance, accesses>>

\* Build.save of the instance, its name and version
BuildSave ==
    /\ newBuild.state = "new"
    /\ newBuild' = [BuildSaveNames(newBuild) EXCEPT !.state = "saved"]
    /\ UNCHANGED <<ckVars, aggVars, histVars, statusRow, percentages, evaluated, instance, accesses>>

\* the counts of the Status row are stored
SaveStatus(tests_pass, tests_fail) ==
    /\ statusRow' = [tests_pass |-> tests_pass, tests_fail |-> tests_fail]
    /\ percentages' = NoPercentages
    /\ UNCHANGED <<ckVars, aggVars, histVars, newBuild, evaluated, instance, accesses>>

\* a read of pass_percentage, fail_percentage and has_tests of the row
ReadPercentages ==
    /\ percentages' =
         [read |-> TRUE, pass_percentage |-> pass_percentage(statusRow),
          fail_percentage |-> fail_percentage(statusRow),
          has_tests |-> has_tests(statusRow)]
    /\ UNCHANGED <<ckVars, aggVars, histVars, newBuild, statusRow, evaluated, instance, accesses>>

\* Test.objects.get(id=t): the caller holds a new instance of the test t
GetTest(t) ==
    /\ instance' = [test |-> t, __history__ |-> NoHistory]
    /\ accesses' = NoAccesses
    /\ hist' = NoHistory
    /\ UNCHANGED <<tests, ckVars, aggVars, newBuild, statusRow, percentages,
                   evaluated>>

\* a read of the property history of the instance held, which recomputes
InstanceHistoryRecomputed ==
    /\ instance.test # None
    /\ \E previous_tests \in OrderByBuildDatetimeDesc(PreviousTests(instance.test)) :
         LET computed == [test |-> instance.test,
                          previous_tests |-> previous_tests,
                          history |-> History(instance.test, previous_tests)]
         IN  /\ instance' = [instance EXCEPT !.__history__ = computed]
             /\ accesses' =
                  [first |-> IF accesses.first = NoHistory THEN computed
                             ELSE accesses.first,
                   last |-> computed, stored |-> Len(tests)]
    /\ hist' = NoHistory
    /\ UNCHANGED <<tests, ckVars, aggVars, newBuild, statusRow, percentages,
                   evaluated>>

\* a read of the property history of the instance held, lines 281-304
InstanceHistory ==
    /\ instance.test # None
    /\ IF instance.__history__ # NoHistory
       THEN /\ instance' = instance
            /\ accesses' = [accesses EXCEPT !.last = instance.__history__,
                                            !.stored = Len(tests)]
       ELSE \E previous_tests \in OrderByBuildDatetimeDesc(PreviousTests(instance.test)) :
              LET computed == [test |-> instance.test,
                               previous_tests |-> previous_tests,
                               history |-> History(instance.test, previous_tests)]
              IN  /\ instance' = [instance EXCEPT !.__history__ = computed]
                  /\ accesses' =
                       [first |-> IF accesses.first = NoHistory THEN computed
                                  ELSE accesses.first,
                        last |-> computed, stored |-> Len(tests)]
    /\ hist' = NoHistory
    /\ UNCHANGED <<tests, ckVars, aggVars, newBuild, statusRow, percentages,
                   evaluated>>

\* The scheduler calls create once at a time.
Next ==
    \/ Tick
    \/ \E datetime \in Times \cup {None} : SubmitBuild(datetime)
    \/ Create
    \/ \E s \in StatusIds : ReadBuilds(s)

Spec == Init /\ [][Next]_vars

\* The caller of create reads the builds of each status it is returned.
NextFeed ==
    \/ Tick
    \/ \E datetime \in Times \cup {None} : SubmitBuild(datetime)
    \/ CreateAndReadBuilds

SpecFeed == Init /\ [][NextFeed]_vars

\* The same, create being called again and again as the clock advances: the
\* notification system calls it periodically.
SpecFeedFair ==
    Init /\ [][NextFeed]_vars /\ WF_vars(Tick) /\ WF_vars(CreateAndReadBuilds)

\* Several callers of create at a time.
NextRace ==
    \/ Tick
    \/ \E datetime \in Times \cup {None} : SubmitBuild(datetime)
    \/ \E p \in Procs : CreateQueryBuild(p)
    \/ \E p \in Procs : CreateQueryPrevious(p)
    \/ \E p \in Procs : CreateFinish(p)

SpecRace == Init /\ [][NextRace]_vars

\* The aggregations read no field of the project.
InitBuild == Init /\ threshold = 0

\* The test runs of a build are stored and its metadata read.
NextMetadata ==
    \/ \E metadata_file \in MetadataFiles : CreateTestRun("env1", metadata_file)
    \/ ReadMetadata

SpecMetadata == InitBuild /\ [][NextMetadata]_vars

\* The test runs and tests of a build are stored and its summary and
\* metadata read.
NextSummary ==
    \/ \E environment \in Envs : CreateTestRun(environment, NullFile)
    \/ \E r \in RunIds, result \in Results : CreateTest(r, result)
    \/ ReadSummary
    \/ ReadMetadata

SpecSummary == InitBuild /\ [][NextSummary]_vars

\* Tests are stored and the history of one is read.
NextHistory ==
    \/ \E origin \in Origins, datetime \in TestTimes, result \in HistoryResults :
            IngestTest(origin[1], origin[2], origin[3], datetime, result)
    \/ \E self \in TestIds : ReadHistory(self)

SpecHistory == InitBuild /\ [][NextHistory]_vars

\* A build is constructed and saved.
NextSave ==
    \/ NewBuild
    \/ BuildSave

SpecSave == InitBuild /\ [][NextSave]_vars

\* The counts of a Status row are stored and its percentages read.
NextStatus ==
    \/ \E tests_pass \in Counts, tests_fail \in Counts :
            SaveStatus(tests_pass, tests_fail)
    \/ ReadPercentages

SpecStatus == InitBuild /\ [][NextStatus]_vars

\* Tests are stored while a caller holds an instance of one and reads its
\* history, and while the history of new instances is read.
NextCache ==
    \/ \E datetime \in TestTimes, result \in HistoryResults :
            IngestTest(HeldOrigin[1], HeldOrigin[2], HeldOrigin[3], datetime, result)
    \/ \E t \in TestIds : GetTest(t)
    \/ InstanceHistory
    \/ \E self \in TestIds : ReadHistory(self)

SpecCache == InitBuild /\ [][NextCache]_vars

(* ----------------------------- properties ------------------------------ *)
\* The datetime of the build b.
BuildDatetime(b) == builds[b].datetime

\* C1: a call of create adds a checkpoint if and only if a candidate exists
\* and the project has no checkpoint or its latest checkpoint references
\* another build, a candidate being a build of greatest datetime among those
\* with datetime < now - threshold, whatever the order of insertion; the
\* checkpoint added has build = candidate and previous = the latest
\* checkpoint there was, or none.
C1_CreateContract ==
    [][ret' # NotCalled =>
        LET completed == { b \in BuildIds : BuildDatetime(b) < now - threshold }
            candidates ==
                IF completed = {} THEN {None}
                ELSE { b \in completed :
                         \A c \in completed : BuildDatetime(c) <= BuildDatetime(b) }
            latest == IF statuses = <<>> THEN None ELSE Len(statuses)
        IN  \E candidate \in candidates :
              IF candidate # None
                 /\ (latest = None \/ statuses[latest].build # candidate)
              THEN /\ statuses' = Append(statuses,
                                    [build |-> candidate, previous |-> latest])
                   /\ ret' = Len(statuses) + 1
              ELSE /\ statuses' = statuses
                   /\ ret' = None]_vars

\* create has just added a checkpoint after another one, on a build that is
\* not the last one inserted: an older build was inserted after it.
C1_Witness ==
    /\ ret \in StatusIds
    /\ statuses[ret].previous # None
    /\ \E b \in BuildIds :
         /\ b > statuses[ret].build
         /\ BuildDatetime(b) < BuildDatetime(statuses[ret].build)

\* C2: when two calls of create have read the same latest checkpoint and
\* the same candidate build, the one that finishes after the other has
\* stored its checkpoint stores none and returns None.
C2_RaceLoserIsNoOp ==
    [][\A p \in Procs :
         (/\ pc[p] = "decide"
          /\ pc'[p] = "idle"
          /\ \E s \in StatusIds :
               /\ statuses[s].build = local[p].build
               /\ statuses[s].previous = local[p].previous)
         => (statuses' = statuses /\ ret' = None)]_vars

\* C3: every checkpoint that has a previous checkpoint references a build of
\* a datetime strictly greater than that of the previous checkpoint's build.
C3_ChainStrictlyIncreasing ==
    \A s \in StatusIds :
        statuses[s].previous # None =>
            BuildDatetime(statuses[s].build)
                > BuildDatetime(statuses[statuses[s].previous].build)

\* C4: a call of create that follows another call of create at once returns
\* None and leaves the checkpoints as they are.
C4_SecondCreateIsNoOp ==
    [][(ret # NotCalled /\ ret' # NotCalled)
          => (ret' = None /\ statuses' = statuses)]_vars

\* C5: the list read from the builds property of a checkpoint that has a
\* previous checkpoint holds exactly the builds of a datetime strictly
\* greater than that of the previous checkpoint's build and at most that of
\* the checkpoint's build, each once, in ascending order of datetime.
C5_BuildsSincePrevious ==
    (feed.status # None /\ statuses[feed.status].previous # None) =>
        LET this == BuildDatetime(statuses[feed.status].build)
            prev == BuildDatetime(statuses[statuses[feed.status].previous].build)
            q == feed.builds
        IN  /\ { q[i] : i \in DOMAIN q }
                 = { b \in BuildIds : prev < BuildDatetime(b) /\ BuildDatetime(b) <= this }
            /\ \A i, j \in DOMAIN q :
                 i < j => q[i] # q[j] /\ BuildDatetime(q[i]) <= BuildDatetime(q[j])

\* The previous checkpoint is at a build B1, the checkpoint at a build B3, a
\* build B2 lies between them, and the list read is <<B2, B3>>.
C5_Witness ==
    /\ feed.status # None
    /\ statuses[feed.status].previous # None
    /\ Len(feed.builds) = 2
    /\ feed.builds[2] = statuses[feed.status].build
    /\ BuildDatetime(statuses[statuses[feed.status].previous].build)
         < BuildDatetime(feed.builds[1])
    /\ BuildDatetime(feed.builds[1]) < BuildDatetime(feed.builds[2])

\* C6: with two builds, A older than the threshold and B younger, and no
\* checkpoint, create returns a checkpoint on A; with the checkpoint on A
\* the only one and B older than the threshold too, create returns a new
\* checkpoint on B whose previous is the checkpoint on A and whose builds
\* are exactly <<B>>.
C6_TwoBuildsScenario ==
    [][(ret' # NotCalled /\ Len(builds) = 2) =>
        \A A, B \in BuildIds :
            LET completed_by == now - threshold
            IN  /\ (/\ BuildDatetime(A) < completed_by
                    /\ ~(BuildDatetime(B) < completed_by)
                    /\ statuses = <<>>)
                   => (/\ ret' = 1
                       /\ statuses' = <<[build |-> A, previous |-> None]>>)
                /\ (/\ BuildDatetime(A) < BuildDatetime(B)
                    /\ BuildDatetime(B) < completed_by
                    /\ statuses = <<[build |-> A, previous |-> None]>>)
                   => (/\ ret' = 2
                       /\ statuses' = Append(statuses, [build |-> B, previous |-> 1])
                       /\ StatusBuilds(2)' = {<<B>>})]_vars

\* create has just returned the second checkpoint of the scenario.
C6_Witness ==
    /\ Len(builds) = 2
    /\ ret = 2
    /\ Len(statuses) = 2
    /\ statuses[1].previous = None
    /\ statuses[2].previous = 1
    /\ BuildDatetime(statuses[1].build) < BuildDatetime(statuses[2].build)

\* C7: the metadata read is the one every order of the test runs yields.
C7_OrderIndependent ==
    metadata.read =>
        \A order \in AllOrders(RunIds) : BuildMetadata(order) = metadata.value

\* C8: for a build with test runs, the metadata read holds exactly the keys
\* present with the same value in the metadata of every test run, with that
\* value.
C8_CommonPairs ==
    (metadata.read /\ RunIds # {}) =>
        LET md(r) == TestRunMetadata(testRuns[r])
            common == { k \in Keys :
                          \A r \in RunIds : k \in DOMAIN md(r) /\ md(r)[k] = md(1)[k] }
        IN  /\ DOMAIN metadata.value = common
            /\ \A k \in common : metadata.value[k] = md(1)[k]

\* C9: the history read for a test is computed over the other tests of the
\* same suite, name and environment and of a strictly earlier build
\* datetime, most recent first: count is the length of the longest prefix of
\* results equal to the test's result, since is the last test of that prefix
\* or None, last_different the test after that prefix or None.
C9_History ==
    hist.test # None =>
        LET self == hist.test
            q == hist.previous_tests
            same(i) == tests[q[i]].result = tests[self].result
            prefix == CHOOSE k \in 0 .. Len(q) :
                        /\ \A i \in 1 .. k : same(i)
                        /\ k < Len(q) => ~same(k + 1)
        IN  /\ { q[i] : i \in DOMAIN q }
                 = { t \in TestIds :
                       /\ t # self
                       /\ tests[t].suite = tests[self].suite
                       /\ tests[t].name = tests[self].name
                       /\ tests[t].environment = tests[self].environment
                       /\ tests[t].datetime < tests[self].datetime }
            /\ \A i, j \in DOMAIN q :
                 i < j => q[i] # q[j] /\ tests[q[i]].datetime >= tests[q[j]].datetime
            /\ hist.history.count = prefix
            /\ hist.history.since = IF prefix = 0 THEN None ELSE q[prefix]
            /\ hist.history.last_different
                 = IF prefix < Len(q) THEN q[prefix + 1] ELSE None

\* The history read has a streak of one test and, before it, a test of
\* another result, of an earlier build.
C9_Witness ==
    /\ hist.test # None
    /\ hist.history.count = 1
    /\ hist.history.last_different # None
    /\ Len(hist.previous_tests) = 2
    /\ tests[hist.previous_tests[1]].datetime > tests[hist.previous_tests[2]].datetime

\* C10: in the summary read, failures[env] is the list of the tests of
\* result False of the runs of the environment env, in the order the loops
\* visited them, and an environment without such a test has no key; fail
\* counts the tests of result False and missing those of result None.
C10_Failures ==
    summary.read =>
        LET it == summary.iterated
            failed(env) ==
                LET F(t) == TestResult(t) = "False" /\ testRuns[t[1]].environment = env
                IN  SelectSeq(it, F)
        IN  /\ { it[i] : i \in DOMAIN it } = AllTests
            /\ Len(it) = Cardinality(AllTests)
            /\ \A env \in Envs :
                 IF failed(env) = <<>>
                 THEN env \notin DOMAIN summary.value.failures
                 ELSE /\ env \in DOMAIN summary.value.failures
                      /\ summary.value.failures[env] = failed(env)
            /\ DOMAIN summary.value.failures \subseteq Envs
            /\ summary.value.fail
                 = Cardinality({ t \in AllTests : TestResult(t) = "False" })
            /\ summary.value.missing
                 = Cardinality({ t \in AllTests : TestResult(t) = "None" })

\* The summary read counts a failed test and a missing one, and an
\* environment of the build has no failed test.
C10_Witness ==
    /\ summary.read
    /\ summary.value.fail = 1
    /\ summary.value.missing = 1
    /\ \E r \in RunIds : testRuns[r].environment \notin DOMAIN summary.value.failures


\* C11: in every value read from test_summary, total is the sum of pass,
\* fail and missing, and total is the number of tests of the test runs of
\* the build.
C11_TotalIsSum ==
    summary.read =>
        /\ summary.value.total
             = summary.value.pass + summary.value.fail + summary.value.missing
        /\ summary.value.total = Cardinality(AllTests)

\* A summary read of a build with a test of a result and a test of none.
C11_Witness ==
    /\ summary.read
    /\ summary.value.total = 2
    /\ summary.value.missing = 1
    /\ summary.value.pass + summary.value.fail = 1

\* The string t is the string s with "~" in the place of the "-" of every
\* "-rc" of s.
Rewritten(s, t) ==
    /\ Len(t) = Len(s)
    /\ \A i \in 1 .. Len(s) :
         t[i] = IF i + 2 <= Len(s) /\ s[i] = "-" /\ s[i + 1] = "r" /\ s[i + 2] = "c"
                THEN "~" ELSE s[i]

\* C12: after Build.save, a build given a name only has that name and, as
\* version, the name with every "-rc" rewritten to "~rc"; a build given a
\* version only has that version as name and, as version, the version
\* given with every "-rc" rewritten to "~rc"; a build given both has both
\* as given.
C12_SaveNameVersion ==
    newBuild.state = "saved" =>
        LET given == newBuild.given
        IN  /\ (given.name # <<>> /\ given.version = <<>>) =>
                 /\ newBuild.name = given.name
                 /\ Rewritten(given.name, newBuild.version)
            /\ (given.name = <<>> /\ given.version # <<>>) =>
                 /\ newBuild.name = given.version
                 /\ Rewritten(given.version, newBuild.version)
            /\ (given.name # <<>> /\ given.version # <<>>) =>
                 /\ newBuild.name = given.name
                 /\ newBuild.version = given.version

\* A build given the version -rc-rc only is saved with that name and with
\* the version ~rc~rc.
C12_Witness ==
    /\ newBuild.state = "saved"
    /\ newBuild.given.name = <<>>
    /\ newBuild.given.version = <<"-", "r", "c", "-", "r", "c">>
    /\ newBuild.name = <<"-", "r", "c", "-", "r", "c">>
    /\ newBuild.version = <<"~", "r", "c", "~", "r", "c">>

\* C13: a test run whose metadata_file is not JSON has a mapping as
\* metadata, and the read of the metadata of a build that has such a run
\* returns a mapping: neither raises.
C13_UnparseableIsEmpty ==
    metadata.read =>
        /\ \A r \in RunIds : TestRunMetadata(testRuns[r]) # ValueError
        /\ metadata.value # ValueError

\* C14: for a Status row of counts that are not negative, neither
\* percentage raises; pass_percentage is 0 when tests_pass is 0 and
\* otherwise the number 100 * tests_pass / (tests_pass + tests_fail);
\* fail_percentage is 100 - pass_percentage, 100 when both counts are 0;
\* has_tests holds exactly when tests_pass + tests_fail > 0.
C14_Percentages ==
    (percentages.read /\ statusRow.tests_pass >= 0 /\ statusRow.tests_fail >= 0) =>
        LET pass == percentages.pass_percentage
            fail == percentages.fail_percentage
            total == statusRow.tests_pass + statusRow.tests_fail
        IN  /\ pass # ZeroDivisionError /\ pass.den > 0
            /\ fail # ZeroDivisionError /\ fail.den > 0
            /\ statusRow.tests_pass = 0 => pass.num = 0
            /\ statusRow.tests_pass # 0 =>
                 pass.num * total = 100 * statusRow.tests_pass * pass.den
            /\ fail.num * pass.den + pass.num * fail.den = 100 * pass.den * fail.den
            /\ total = 0 => fail.num = 100 * fail.den
            /\ percentages.has_tests <=> total > 0

\* The percentages of a row of no test are read: 0 and 100, has_tests false.
C14_Witness ==
    /\ percentages.read
    /\ statusRow = [tests_pass |-> 0, tests_fail |-> 0]
    /\ percentages.pass_percentage.num = 0
    /\ percentages.fail_percentage = [num |-> 100, den |-> 1]
    /\ ~percentages.has_tests

\* C15: of the lists that the builds property returned for the checkpoints
\* when create returned them, no two hold the same build, and none holds a
\* build of a datetime later than that of the build of its checkpoint, the
\* first checkpoint included.
C15_FeedDisjointUpToOwnBuild ==
    /\ \A s, t \in DOMAIN evaluated :
         s # t => \A i \in DOMAIN evaluated[s], j \in DOMAIN evaluated[t] :
                     evaluated[s][i] # evaluated[t][j]
    /\ \A s \in DOMAIN evaluated : \A i \in DOMAIN evaluated[s] :
         BuildDatetime(evaluated[s][i]) <= BuildDatetime(statuses[s].build)

C19_AppendOnly ==
    [][ret' # NotCalled =>
          /\ \A s \in StatusIds :
               s \in DOMAIN statuses' /\ statuses'[s] = statuses[s]
          /\ ret' # None =>
               Len(statuses') = Len(statuses) + 1 /\ ret' = Len(statuses')
          /\ ret' = None => statuses' = statuses]_vars

\* A call of create has returned the second checkpoint, the first one being
\* on another build.
C19_Witness ==
    /\ ret # NotCalled
    /\ ret = 2
    /\ Len(statuses) = 2
    /\ statuses[2].previous = 1
    /\ statuses[1].build # statuses[2].build

\* The checkpoints met from the checkpoint s along the previous links.
RECURSIVE ChainFrom(_)
ChainFrom(s) ==
    IF s = None THEN {} ELSE {s} \cup ChainFrom(statuses[s].previous)

\* C17: in every state, those reached by interleaved calls of create
\* included, at most one checkpoint has no previous, no checkpoint is the
\* previous of two checkpoints, and the previous links from the latest
\* checkpoint lead through every checkpoint.
C17_LinearChain ==
    /\ Cardinality({ s \in StatusIds : statuses[s].previous = None }) <= 1
    /\ \A s, t \in StatusIds :
         (s # t /\ statuses[s].previous # None)
            => statuses[s].previous # statuses[t].previous
    /\ ChainFrom(LastStatus) = StatusIds

\* C18: for a build that has no test run, the summary read has total 0,
\* pass 0, fail 0, missing 0 and no failures, and the metadata read is the
\* empty mapping.
C18_NoTestRuns ==
    RunIds = {} =>
        /\ summary.read =>
             /\ summary.value.total = 0 /\ summary.value.pass = 0
             /\ summary.value.fail = 0 /\ summary.value.missing = 0
             /\ DOMAIN summary.value.failures = {}
        /\ metadata.read => DOMAIN metadata.value = {}

\* The summary and the metadata of a build that has no test run were read.
C18_Witness == RunIds = {} /\ summary.read /\ metadata.read

\* C20: every read of the history of a Test instance returns the record its
\* first read returned, whatever tests were stored in between, while the
\* read of the history of a new instance is computed over the tests stored
\* when it is made.
C20_HistoryMemoized ==
    /\ accesses.last # NoHistory => accesses.last = accesses.first
    /\ hist.test # None =>
         /\ { hist.previous_tests[i] : i \in DOMAIN hist.previous_tests }
              = PreviousTests(hist.test)
         /\ hist.history = History(hist.test, hist.previous_tests)

\* The instance held was read again after an earlier test of its suite,
\* name and environment was stored, and returned the record of its first
\* read; a new instance of the same test was then read and returned another
\* history, computed over that test too.
C20_Witness ==
    /\ instance.test # None
    /\ accesses.last # NoHistory
    /\ accesses.last = accesses.first
    /\ accesses.stored = Len(tests)
    /\ { accesses.last.previous_tests[i] : i \in DOMAIN accesses.last.previous_tests }
         # PreviousTests(instance.test)
    /\ hist.test = instance.test
    /\ hist.history # accesses.last.history

\* The build b is older than the completion threshold.
Completed(b) == b \in BuildIds /\ BuildDatetime(b) < now - threshold
\* The build b is in the list evaluated for a checkpoint that create returned.
Listed(b) ==
    \E s \in DOMAIN evaluated : \E i \in DOMAIN evaluated[s] : evaluated[s][i] = b

\* C21: create being called again and again as the clock advances, every
\* build of the project, whatever its datetime, that is older than the
\* threshold is eventually in the list evaluated for a checkpoint that
\* create returned (in the behaviours that do not fill the table of
\* checkpoints).
C21_NoBuildLost ==
    \A b \in 1 .. MaxBuilds :
        <>(Len(statuses) = MaxStatuses) \/ [](Completed(b) => <>Listed(b))
=============================================================================
